---- MODULE Spec2Model ----
(***************************************************************************)
(* A model of the feed-forward network of src/network.rs and of the        *)
(* activation functions of src/activation.rs.                              *)
(*                                                                         *)
(* Numbers.  An f64 is modelled by a dyadic rational <<m, e>> = m / 2^e,   *)
(* kept normalised (m odd, or e = 0).  On such values of fewer than 53     *)
(* bits f64 addition, subtraction and multiplication are exact, so the     *)
(* model computes what the code computes as long as no value needs more    *)
(* bits than that; the guards keep every value inside TLC's integers.      *)
(* exp and ln are not dyadic: Sigmoid's forward and backward are           *)
(* tabulated to the nearest multiple of 1/4 resp. 1/2 (see SigmoidForward).*)
(* The non-finite f64 values carry the exponent -1.                        *)
(***************************************************************************)
EXTENDS Integers, Sequences, FiniteSets, TLC

VARIABLES
    NUM_IN,                 \* const generic NUM_IN of Network
    NUM_OUT,                \* const generic NUM_OUT of Network
    layers,                 \* Network.layers
    pc,                     \* position of the caller / of the running call
    input,                  \* argument of the running (or last) call
    target,                 \* argument of backpropagate
    learning_rate,          \* argument of backpropagate
    intermediate_outputs,   \* local of backpropagate
    layer_gradients,        \* local of backpropagate
    total_error,            \* local of backpropagate
    layer_deltas,           \* local of backpropagate
    i,                      \* loop index of backpropagate (1-based)
    result,                 \* value returned by the last call
    calls,                  \* number of backpropagate calls completed
    layers0,                \* history: layers when the running call started
    applied,                \* history: layers written by the running call, in order
    random_args,            \* history: the arguments of Network::random
    hidden_layers,          \* argument of Network::random still to be consumed
    prev_num_neurons,       \* local of Network::random
    info,                   \* an ActivationFnInfo (serialized form)
    activation,             \* a Box<dyn ActivationFn>
    stdout,                 \* what println! has written
    test_cases              \* the caller's table of (input, target, learning rate)

vars == <<NUM_IN, NUM_OUT, layers, pc, input, target, learning_rate,
          intermediate_outputs, layer_gradients, total_error, layer_deltas, i,
          result, calls, layers0, applied, random_args, hidden_layers,
          prev_num_neurons, info, activation, stdout, test_cases>>

netVars == <<NUM_IN, NUM_OUT, layers, input, target, learning_rate,
             intermediate_outputs, layer_gradients, total_error, layer_deltas, i,
             calls, layers0, applied, test_cases>>
randVars == <<random_args, hidden_layers, prev_num_neurons>>
actVars == <<info, activation, stdout>>

----------------------------------------------------------------------------
(* f64 arithmetic on dyadic rationals *)

RECURSIVE Norm(_, _)
Norm(m, e) == IF e > 0 /\ m % 2 = 0 THEN Norm(m \div 2, e - 1) ELSE <<m, e>>

F(m, e) == Norm(m, e)

Zero == <<0, 0>>
One == <<1, 0>>
NaN == <<0, -1>>
PosInf == <<1, -1>>
NegInf == <<-1, -1>>
\* a finite value of more than 30 bits, which the model does not compute
Wide == <<0, -2>>

Max(a, b) == IF a >= b THEN a ELSE b
Abs(m) == IF m < 0 THEN -m ELSE m

\* |m| * 2^d takes at most 29 bits
Fits(m, d) == m = 0 \/ (d <= 29 /\ Abs(m) <= 2 ^ (29 - d))

Add(a, b) ==
    IF a[2] < 0 \/ b[2] < 0 THEN Wide
    ELSE LET e == Max(a[2], b[2])
         IN  IF Fits(a[1], e - a[2]) /\ Fits(b[1], e - b[2])
             THEN Norm(a[1] * 2 ^ (e - a[2]) + b[1] * 2 ^ (e - b[2]), e)
             ELSE Wide

Neg(a) == IF a[2] < 0 THEN Wide ELSE <<-a[1], a[2]>>

Sub(a, b) == Add(a, Neg(b))

Mul(a, b) ==
    IF a[2] < 0 \/ b[2] < 0 THEN Wide
    ELSE IF a[1] = 0 \/ b[1] = 0 THEN Zero
    ELSE IF a[2] + b[2] <= 30 /\ Abs(a[1]) <= (2 ^ 30) \div Abs(b[1])
         THEN Norm(a[1] * b[1], a[2] + b[2])
         ELSE Wide

\* x / 2.0
Half(a) == IF a[2] < 0 \/ a[2] >= 30 THEN Wide ELSE Norm(a[1], a[2] + 1)

\* a value, a vector, a matrix the model computed exactly
ExactNum(v) == v[2] >= 0
ExactVec(v) == \A n \in 1..Len(v) : ExactNum(v[n])
ExactMat(w) == \A n \in 1..Len(w) : ExactVec(w[n])

----------------------------------------------------------------------------
(* src/activation.rs: the activation functions *)

\* 1.0 / (1.0 + (-x).exp()), to the nearest multiple of 1/4 inside (0, 1):
\* 1/4 up to ln(3/5), 3/4 from ln(5/3) = 0.5108 (1047 / 2^11 here), 1/2 between
SigmoidForward(x) ==
    LET above == Sub(x, F(1047, 11))
        below == Add(x, F(1047, 11))
    IN  IF ~ExactNum(above) \/ ~ExactNum(below) THEN Wide
        ELSE F(2 + (IF above[1] >= 0 THEN 1 ELSE 0) - (IF below[1] <= 0 THEN 1 ELSE 0), 2)

\* the x (times 2^11) from which -ln((1 - x) / x) rounds to 1/2, 1, 3/2, ... 4
LogitSteps == <<1152, 1391, 1592, 1745, 1853, 1925, 1972, 2001>>

\* -((1.0 - x) / x).ln(): NaN outside [0, 1], -inf at 0, +inf at 1, and inside
\* the nearest multiple of 1/2 (the table stops at 4)
SigmoidBackward(x) ==
    IF ~ExactNum(x) THEN x
    ELSE IF x[1] < 0 \/ Sub(One, x)[1] < 0 THEN NaN
    ELSE IF x = Zero THEN NegInf
    ELSE IF x = One THEN PosInf
    ELSE LET up == Cardinality({j \in 1..Len(LogitSteps) :
                                   Sub(x, F(LogitSteps[j], 11))[1] >= 0})
             down == Cardinality({j \in 1..Len(LogitSteps) :
                                     Sub(Sub(One, x), F(LogitSteps[j], 11))[1] >= 0})
         IN  F(up - down, 1)

\* x * (1.0 - x)
SigmoidDerivative(x) == Mul(x, Sub(One, x))

\* the trait objects
Identity == [kind |-> "Identity"]
Sigmoid == [kind |-> "Sigmoid"]
DebugPrint(output, inner) ==
    [kind |-> "DebugPrint", output |-> output, activation |-> inner]

\* the variants of enum ActivationFnInfo
InfoIdentity == [tag |-> "Identity"]
InfoSigmoid == [tag |-> "Sigmoid"]
InfoDebugPrint(output, inner) ==
    [tag |-> "DebugPrint", output |-> output, activation |-> inner]

\* one line written by println!: "{output}; f({x}) = {result}", with f, f^-1 or f'
PrintLine(output, op, x, r) == [ev |-> "print", output |-> output, op |-> op, x |-> x, result |-> r]

\* history: an operation of an activation was entered
CallEvent(fn, op, x) == [ev |-> "call", kind |-> fn.kind, op |-> op, x |-> x]

\* the body of a leaf activation's forward / backward / derivative
LeafResult(fn, op, x) ==
    IF fn.kind = "Identity"
    THEN (IF op = "forward" THEN x ELSE IF op = "backward" THEN x ELSE One)
    ELSE (IF op = "forward" THEN SigmoidForward(x)
          ELSE IF op = "backward" THEN SigmoidBackward(x)
          ELSE SigmoidDerivative(x))

\* DebugPrint's operations had they printed before calling the wrapped activation
DebugPrintBodyPrintFirst(fn, op, x, wrapped) ==
    [result |-> wrapped.result,
     trace |-> <<CallEvent(fn, op, x), PrintLine(fn.output, op, x, wrapped.result)>>
               \o wrapped.trace]

\* DebugPrint::forward / backward / derivative, given what the wrapped call did:
\* the wrapped call first, then the line, then its result
DebugPrintBody(fn, op, x, wrapped) ==
    [result |-> wrapped.result,
     trace |-> <<CallEvent(fn, op, x)>> \o wrapped.trace
               \o <<PrintLine(fn.output, op, x, wrapped.result)>>]

\* fn.forward(x), fn.backward(x) or fn.derivative(x): the value returned and the
\* events of the call in order
RECURSIVE Call(_, _, _)
Call(fn, op, x) ==
    IF fn.kind = "DebugPrint"
    THEN DebugPrintBody(fn, op, x, Call(fn.activation, op, x))
    ELSE [result |-> LeafResult(fn, op, x), trace |-> <<CallEvent(fn, op, x)>>]

Prints(trace) == SelectSeq(trace, LAMBDA ev : ev.ev = "print")

ActForward(fn, x) == Call(fn, "forward", x).result
ActDerivative(fn, x) == Call(fn, "derivative", x).result

\* ActivationFnInfo::get_function
RECURSIVE get_function(_)
get_function(d) ==
    IF d.tag = "Identity" THEN Identity
    ELSE IF d.tag = "Sigmoid" THEN Sigmoid
    ELSE DebugPrint(d.output, get_function(d.activation))

\* DebugPrint::get_serializable had it described the wrapped activation only
DebugPrintSerializableInner(fn, inner) == inner

\* DebugPrint::get_serializable, given the wrapped activation's description
DebugPrintSerializable(fn, inner) == InfoDebugPrint(fn.output, inner)

\* ActivationFn::get_serializable
RECURSIVE get_serializable(_)
get_serializable(fn) ==
    IF fn.kind = "Identity" THEN InfoIdentity
    ELSE IF fn.kind = "Sigmoid" THEN InfoSigmoid
    ELSE DebugPrintSerializable(fn, get_serializable(fn.activation))

\* DebugPrint::clone_to_box, given the wrapped activation's clone
DebugPrintClone(fn, inner) == DebugPrint(fn.output, inner)

\* ActivationFn::clone_to_box
RECURSIVE clone_to_box(_)
clone_to_box(fn) ==
    IF fn.kind = "Identity" THEN Identity
    ELSE IF fn.kind = "Sigmoid" THEN Sigmoid
    ELSE DebugPrintClone(fn, clone_to_box(fn.activation))

----------------------------------------------------------------------------
(* src/network.rs: Layer and Network *)

MaxLayers == 3      \* most layers of a network built by Network::new
MaxCalls == 2       \* most backpropagate calls on one network

RECURSIVE Flatten(_)
Flatten(ss) == IF ss = <<>> THEN <<>> ELSE Head(ss) \o Flatten(Tail(ss))

Last(s) == s[Len(s)]

\* Layer::new
Layer(weights, biases, act) ==
    [weights |-> weights, biases |-> biases, activation |-> act]

\* Layer::with_dimensions
with_dimensions(num_neurons, num_inputs, act) ==
    [weights |-> [n \in 1..num_neurons |-> [k \in 1..num_inputs |-> Zero]],
     biases |-> [n \in 1..num_neurons |-> Zero],
     activation |-> act]

\* Layer::len
LayerLen(layer) == Len(layer.biases)

\* forward_with_intermediate_outputs: sum = biases[i]; sum += weights[i][j] * last_output[j]
RECURSIVE FwioSum(_, _, _, _)
FwioSum(row, last_output, j, sum) ==
    IF j > Len(last_output) THEN sum
    ELSE FwioSum(row, last_output, j + 1, Add(sum, Mul(row[j], last_output[j])))

\* new_output of one layer had the sum started at 0.0 and not at the bias
FwioLayerNoBias(layer, last_output) ==
    [n \in 1..Len(layer.weights) |->
        ActForward(layer.activation, FwioSum(layer.weights[n], last_output, 1, Zero))]

\* forward_with_intermediate_outputs: new_output of one layer
FwioLayer(layer, last_output) ==
    [n \in 1..Len(layer.weights) |->
        ActForward(layer.activation,
                   FwioSum(layer.weights[n], last_output, 1, layer.biases[n]))]

RECURSIVE FwioLoop(_, _, _)
FwioLoop(ls, l, intermediate) ==
    IF l > Len(ls) THEN intermediate
    ELSE FwioLoop(ls, l + 1, Append(intermediate, FwioLayer(ls[l], Last(intermediate))))

\* Network::forward_with_intermediate_outputs
forward_with_intermediate_outputs(ls, x) == FwioLoop(ls, 1, <<x>>)

\* the lines the activations of one layer print while it is evaluated on last_output
LayerPrints(layer, last_output) ==
    Flatten([n \in 1..Len(layer.weights) |->
        Prints(Call(layer.activation, "forward",
                    FwioSum(layer.weights[n], last_output, 1, layer.biases[n])).trace)])

\* the lines printed by one forward evaluation of the network
ForwardPrints(ls, x) ==
    LET io == forward_with_intermediate_outputs(ls, x)
    IN  Flatten([l \in 1..Len(ls) |-> LayerPrints(ls[l], io[l])])

\* forward: sum = biases[i]; sum += weights[i][j] * last_output[j]
RECURSIVE ForwardSum(_, _, _, _)
ForwardSum(row, last_output, j, sum) ==
    IF j > Len(last_output) THEN sum
    ELSE ForwardSum(row, last_output, j + 1, Add(sum, Mul(row[j], last_output[j])))

\* forward: the loop over self.layers[..self.layers.len() - 1]
RECURSIVE ForwardHidden(_, _, _)
ForwardHidden(ls, k, last_output) ==
    IF k > Len(ls) - 1 THEN last_output
    ELSE ForwardHidden(ls, k + 1,
            [n \in 1..Len(ls[k].weights) |->
                ActForward(ls[k].activation,
                           ForwardSum(ls[k].weights[n], last_output, 1, ls[k].biases[n]))])

\* the last layer of forward had its activation been left out
ForwardLastRaw(layer, last_output, num_out) ==
    [n \in 1..num_out |->
        IF n <= Len(layer.weights)
        THEN ForwardSum(layer.weights[n], last_output, 1, layer.biases[n])
        ELSE Zero]

\* forward: the last layer, written into output = [0.0; NUM_OUT]
ForwardLast(layer, last_output, num_out) ==
    [n \in 1..num_out |->
        IF n <= Len(layer.weights)
        THEN ActForward(layer.activation,
                        ForwardSum(layer.weights[n], last_output, 1, layer.biases[n]))
        ELSE Zero]

\* Network::forward
forward(ls, x, num_out) == ForwardLast(Last(ls), ForwardHidden(ls, 1, x), num_out)

----------------------------------------------------------------------------
(* Network::backpropagate *)

\* the seed gradient had it been target[i] - output
SeedGradientReversed(outputs, t, num_out) == [n \in 1..num_out |-> Sub(t[n], outputs[n])]

\* error_gradient = output - target[i], for i in 0..NUM_OUT
SeedGradient(outputs, t, num_out) == [n \in 1..num_out |-> Sub(outputs[n], t[n])]

\* total_error += (-error_gradient) * (-error_gradient) / 2.0
RECURSIVE TotalError(_, _, _)
TotalError(gradient, n, acc) ==
    IF n > Len(gradient) THEN acc
    ELSE TotalError(gradient, n + 1,
                    Add(acc, Half(Mul(Neg(gradient[n]), Neg(gradient[n])))))

\* neuron_net_input_gradient of neuron j of layer l
NetInputGradient(layer, io, gradients, l, j) ==
    Mul(gradients[l][j], ActDerivative(layer.activation, io[l + 1][j]))

\* neuron_weights_delta of neuron j of layer l
NeuronWeightsDelta(layer, io, gradients, l, j, lr) ==
    [k \in 1..Len(layer.weights[j]) |->
        Mul(lr, Mul(NetInputGradient(layer, io, gradients, l, j), io[l][k]))]

\* bias_delta of neuron j of layer l
BiasDelta(layer, io, gradients, l, j, lr) ==
    Mul(lr, NetInputGradient(layer, io, gradients, l, j))

\* the weight the error is propagated through: layer.weights[j][k]
PropagationWeight(layer, j, k) == layer.weights[j][k]

\* layer_gradients[i - 1][k] += layer.weights[j][k] * neuron_net_input_gradient
RECURSIVE UpstreamGradient(_, _, _, _, _, _)
UpstreamGradient(layer, io, gradients, l, j, acc) ==
    IF j > LayerLen(layer) THEN acc
    ELSE UpstreamGradient(layer, io, gradients, l, j + 1,
            [k \in 1..Len(acc) |->
                IF k <= Len(layer.weights[j])
                THEN Add(acc[k], Mul(PropagationWeight(layer, j, k),
                                     NetInputGradient(layer, io, gradients, l, j)))
                ELSE acc[k]])

\* layer_delta of layer l
LayerDelta(layer, io, gradients, l, lr) ==
    LET zero == with_dimensions(Len(layer.weights), Len(layer.weights[1]),
                                clone_to_box(layer.activation))
    IN  [weights |-> [j \in 1..Len(zero.weights) |->
                        IF j <= LayerLen(layer)
                        THEN NeuronWeightsDelta(layer, io, gradients, l, j, lr)
                        ELSE zero.weights[j]],
         biases |-> [j \in 1..Len(zero.biases) |->
                        IF j <= LayerLen(layer)
                        THEN BiasDelta(layer, io, gradients, l, j, lr)
                        ELSE zero.biases[j]],
         activation |-> zero.activation]

\* the lines printed while the deltas of layer l are computed
DerivativePrints(layer, io, l) ==
    Flatten([j \in 1..LayerLen(layer) |->
        Prints(Call(layer.activation, "derivative", io[l + 1][j]).trace)])

\* the index had the deltas been read in the order of the layers
DeltaIndexForward(layer_count, l) == l

\* layer_deltas[layer_count - i - 1], with layers and deltas counted from 1
DeltaIndex(layer_count, l) == layer_count - l + 1

\* every delta.weights[j][k] and delta.biases[j] the loops over layer read exists
DeltaFits(layer, delta) ==
    /\ LayerLen(layer) <= Len(delta.weights)
    /\ LayerLen(layer) <= Len(delta.biases)
    /\ \A j \in 1..LayerLen(layer) : Len(layer.weights[j]) <= Len(delta.weights[j])

\* the update had the deltas been added
ApplyDeltaAdd(layer, delta) ==
    [weights |-> [j \in 1..Len(layer.weights) |->
                    IF j <= LayerLen(layer)
                    THEN [k \in 1..Len(layer.weights[j]) |->
                            Add(layer.weights[j][k], delta.weights[j][k])]
                    ELSE layer.weights[j]],
     biases |-> [j \in 1..Len(layer.biases) |-> Add(layer.biases[j], delta.biases[j])],
     activation |-> layer.activation]

\* layer.weights[j][k] -= delta.weights[j][k]; layer.biases[j] -= delta.biases[j]
ApplyDelta(layer, delta) ==
    [weights |-> [j \in 1..Len(layer.weights) |->
                    IF j <= LayerLen(layer)
                    THEN [k \in 1..Len(layer.weights[j]) |->
                            Sub(layer.weights[j][k], delta.weights[j][k])]
                    ELSE layer.weights[j]],
     biases |-> [j \in 1..Len(layer.biases) |-> Sub(layer.biases[j], delta.biases[j])],
     activation |-> layer.activation]

----------------------------------------------------------------------------
(* the networks and the arguments the calls are tried on *)

\* the activations given to Layer::new
ActChoices == <<Identity, Sigmoid, DebugPrint("dbg", Identity)>>

\* the weights and biases given to Layer::new
WeightVals == <<F(1, 1), Zero, F(-1, 0), One, F(-1, 1)>>

Patterns == {0, 1, 2}

\* the widths of a layer and of the input
Widths == {1, 2}

\* the layer widths of a network, first layer first
WidthSeqs == UNION {[1..n -> Widths] : n \in 1..MaxLayers}

MkLayer(num_neurons, num_inputs, l, pat, seed) ==
    Layer([j \in 1..num_neurons |-> [k \in 1..num_inputs |->
                WeightVals[((seed + 2 * l + 3 * j + k) % Len(WeightVals)) + 1]]],
          [j \in 1..num_neurons |-> WeightVals[((seed + l + j) % Len(WeightVals)) + 1]],
          ActChoices[((pat + l) % Len(ActChoices)) + 1])

\* Network::new on layers whose widths chain from num_in
MkNetwork(num_in, widths, pat, seed) ==
    [l \in 1..Len(widths) |->
        MkLayer(widths[l], IF l = 1 THEN num_in ELSE widths[l - 1], l, pat, seed)]

\* the driver's four test cases, widened to any width: the inputs are the bits of
\* c, the targets their exclusive or (odd outputs) and their conjunction (even)
CaseInput(c, n) == [k \in 1..n |-> IF k % 2 = 1 THEN F(c % 2, 0) ELSE F(c \div 2, 0)]
CaseTarget(c, n) ==
    [k \in 1..n |-> IF k % 2 = 1 THEN F(((c % 2) + (c \div 2)) % 2, 0)
                    ELSE F((c % 2) * (c \div 2), 0)]
\* the driver's learning rate 0.5, and 1.0
CaseRate(c) == IF c \in {0, 3} THEN F(1, 1) ELSE One

TestCases(num_in, num_out) ==
    {[input |-> CaseInput(c, num_in), target |-> CaseTarget(c, num_out),
      learning_rate |-> CaseRate(c)] : c \in 0..3}

\* every 0.0 / 1.0 input and target with either learning rate
AllCases(num_in, num_out) ==
    [input : [1..num_in -> {Zero, One}], target : [1..num_out -> {Zero, One}],
     learning_rate : {F(1, 1), One}]

None == [op |-> "none"]

\* what no call has touched yet
Untouched ==
    /\ pc = "idle"
    /\ input = <<>>
    /\ target = <<>>
    /\ learning_rate = Zero
    /\ intermediate_outputs = <<>>
    /\ layer_gradients = <<>>
    /\ total_error = Zero
    /\ layer_deltas = <<>>
    /\ i = 0
    /\ result = None
    /\ calls = 0
    /\ applied = <<>>
    /\ random_args = None
    /\ hidden_layers = <<>>
    /\ prev_num_neurons = 0
    /\ info = InfoIdentity
    /\ activation = Identity
    /\ stdout = <<>>

----------------------------------------------------------------------------
(* Spec: a network built by Network::new and trained *)

Init ==
    /\ \E num_in \in Widths, widths \in WidthSeqs, pat \in Patterns :
          /\ NUM_IN = num_in
          /\ NUM_OUT = Last(widths)
          /\ layers = MkNetwork(num_in, widths, pat, num_in + Len(widths))
    /\ test_cases = TestCases(NUM_IN, NUM_OUT)
    /\ layers0 = layers
    /\ Untouched

\* an index out of bounds: the thread panics
Panic ==
    /\ pc' = "panic"
    /\ UNCHANGED <<netVars, result, randVars, actVars>>

\* the running call needs a value of more than 30 bits: the model follows it no further
Abandon ==
    /\ pc' = "out_of_range"
    /\ UNCHANGED <<netVars, result, randVars, actVars>>

\* backpropagate, lines 176-187: the forward pass, the seed gradient, the error
Begin ==
    /\ pc = "idle"
    /\ result.op \in {"none", "backpropagate"}
    /\ calls < MaxCalls
    /\ \E case \in test_cases :
          LET io == forward_with_intermediate_outputs(layers, case.input)
              seed == SeedGradient(Last(io), case.target, NUM_OUT)
              error == TotalError(seed, 1, Zero)
          IN  IF ExactMat(io) /\ ExactVec(seed) /\ ExactNum(error)
              THEN /\ input' = case.input
                   /\ target' = case.target
                   /\ learning_rate' = case.learning_rate
                   /\ intermediate_outputs' = io
                   /\ stdout' = stdout \o ForwardPrints(layers, case.input)
                   /\ layer_gradients' =
                         [l \in 1..Len(layers) |-> IF l = Len(layers) THEN seed ELSE <<>>]
                   /\ total_error' = error
                   /\ layer_deltas' = <<>>
                   /\ i' = Len(layers)
                   /\ pc' = "deltas"
                   /\ result' = None
                   /\ layers0' = layers
                   /\ applied' = <<>>
                   /\ UNCHANGED <<NUM_IN, NUM_OUT, layers, calls, randVars, info,
                                  activation, test_cases>>
              ELSE Abandon

\* the network had the deltas of layer l been applied as soon as computed
LayersAfterDeltaEager(ls, delta, l) == [ls EXCEPT ![l] = ApplyDelta(ls[l], delta)]

\* the network had the delta layer been pushed onto self.layers
LayersAfterDeltaPush(ls, delta, l) == Append(ls, delta)

\* the network after the deltas of layer l were computed: no layer is written
LayersAfterDelta(ls, delta, l) == ls

\* backpropagate, lines 189-225: one iteration of the loop over the layers, reversed
DeltaStep ==
    /\ pc = "deltas"
    /\ LET layer == layers[i]
           delta == LayerDelta(layer, intermediate_outputs, layer_gradients, i,
                               learning_rate)
           upstream == UpstreamGradient(layer, intermediate_outputs, layer_gradients,
                                        i, 1, [k \in 1..Len(layer.weights[1]) |-> Zero])
       IN  IF ExactMat(delta.weights) /\ ExactVec(delta.biases)
              /\ (i > 1 => ExactVec(upstream))
           THEN /\ layer_gradients' =
                      IF i > 1 THEN [layer_gradients EXCEPT ![i - 1] = upstream]
                      ELSE layer_gradients
                /\ layer_deltas' = Append(layer_deltas, delta)
                /\ layers' = LayersAfterDelta(layers, delta, i)
                /\ stdout' = stdout \o DerivativePrints(layer, intermediate_outputs, i)
                /\ i' = IF i > 1 THEN i - 1 ELSE 1
                /\ pc' = IF i > 1 THEN "deltas" ELSE "apply"
                /\ UNCHANGED <<NUM_IN, NUM_OUT, input, target, learning_rate,
                               intermediate_outputs, total_error, result, calls, layers0,
                               applied, randVars, info, activation, test_cases>>
           ELSE Abandon

\* backpropagate, lines 227-236: one iteration of the loop applying the deltas
ApplyStep ==
    /\ pc = "apply"
    /\ LET index == DeltaIndex(Len(layers), i)
           updated == ApplyDelta(layers[i], layer_deltas[index])
       IN  IF ~(index \in 1..Len(layer_deltas) /\ DeltaFits(layers[i], layer_deltas[index]))
           THEN Panic
           ELSE IF ExactMat(updated.weights) /\ ExactVec(updated.biases)
           THEN /\ layers' = [layers EXCEPT ![i] = updated]
                /\ applied' = Append(applied, i)
                /\ i' = i + 1
                /\ pc' = IF i < Len(layers) THEN "apply" ELSE "return"
                /\ UNCHANGED <<NUM_IN, NUM_OUT, input, target, learning_rate,
                               intermediate_outputs, layer_gradients, total_error,
                               layer_deltas, result, calls, layers0, randVars, info,
                               activation, stdout, test_cases>>
           ELSE Abandon

\* backpropagate, lines 238-241
Return ==
    /\ pc = "return"
    /\ result' = [op |-> "backpropagate", layer_gradients |-> layer_gradients,
                  total_error |-> total_error]
    /\ calls' = calls + 1
    /\ pc' = "idle"
    /\ UNCHANGED <<NUM_IN, NUM_OUT, layers, input, target, learning_rate,
                   intermediate_outputs, layer_gradients, total_error, layer_deltas, i,
                   layers0, applied, randVars, info, activation, stdout, test_cases>>

Next == Begin \/ DeltaStep \/ ApplyStep \/ Return

Spec == Init /\ [][Next]_vars

----------------------------------------------------------------------------
(* SpecNeuron: one Identity neuron, trained on every case *)

InitNeuron ==
    /\ NUM_IN = 1
    /\ NUM_OUT = 1
    /\ \E w \in 1..Len(WeightVals), b \in 1..Len(WeightVals) :
          layers = <<Layer(<<<<WeightVals[w]>>>>, <<WeightVals[b]>>, Identity)>>
    /\ test_cases = AllCases(1, 1)
    /\ layers0 = layers
    /\ Untouched

SpecNeuron == InitNeuron /\ [][Next]_vars

----------------------------------------------------------------------------
(* SpecEval: a network built by Network::new and evaluated *)

\* the inputs the network is evaluated on
EvalInputs(n) == [1..n -> {Zero, One, F(-1, 1)}]

\* the layer widths the evaluation is tried on: a layer may have no neuron
EvalWidthSeqs == UNION {[1..n -> Widths \cup {0}] : n \in 1..MaxLayers}

EvalSeeds == {1, 2, 3}

InitEval ==
    /\ \E num_in \in Widths, widths \in EvalWidthSeqs, pat \in Patterns,
          seed \in EvalSeeds :
          /\ NUM_IN = num_in
          /\ NUM_OUT = Last(widths)
          /\ layers = MkNetwork(num_in, widths, pat, seed)
    /\ test_cases = {}
    /\ layers0 = layers
    /\ Untouched

\* a call of Network::forward
Forward ==
    /\ pc = "idle"
    /\ result = None
    /\ \E x \in EvalInputs(NUM_IN) :
          /\ input' = x
          /\ result' = [op |-> "forward", output |-> forward(layers, x, NUM_OUT)]
          /\ stdout' = stdout \o ForwardPrints(layers, x)
    /\ UNCHANGED <<NUM_IN, NUM_OUT, layers, target, learning_rate, intermediate_outputs,
                   layer_gradients, total_error, layer_deltas, i, calls, layers0, applied,
                   test_cases, pc, randVars, info, activation>>

\* a call of Network::forward_with_intermediate_outputs
ForwardWithIntermediateOutputs ==
    /\ pc = "idle"
    /\ result = None
    /\ \E x \in EvalInputs(NUM_IN) :
          /\ input' = x
          /\ result' = [op |-> "forward_with_intermediate_outputs",
                        output |-> forward_with_intermediate_outputs(layers, x)]
          /\ stdout' = stdout \o ForwardPrints(layers, x)
    /\ UNCHANGED <<NUM_IN, NUM_OUT, layers, target, learning_rate, intermediate_outputs,
                   layer_gradients, total_error, layer_deltas, i, calls, layers0, applied,
                   test_cases, pc, randVars, info, activation>>

NextEval == Forward \/ ForwardWithIntermediateOutputs

SpecEval == InitEval /\ [][NextEval]_vars

----------------------------------------------------------------------------
(* SpecRandom: Network::random *)

MaxHidden == 1      \* most hidden layers given to Network::random

\* num_neurons of a LayerProperties
Sizes == {0, 1, 2}

\* samples of rand::random::<f64>(), uniform in [0, 1)
RandVals == {Zero, F(1, 1)}

\* r / (n as f64)
RECURSIVE Div(_, _)
Div(r, n) ==
    IF n = 0 THEN (IF r = Zero THEN NaN ELSE PosInf)
    ELSE IF n = 1 THEN r
    ELSE IF n % 2 = 0 THEN Div(Half(r), n \div 2)
    ELSE Wide

\* LayerProperties::new
LayerProperties(num_neurons, act) == [num_neurons |-> num_neurons, activation |-> act]

HiddenSpecs ==
    UNION {[1..n -> {LayerProperties(k, a) : k \in Sizes, a \in {Identity, Sigmoid}}] :
              n \in 0..MaxHidden}

\* the rows the loops of random can push: num_neurons rows of num_inputs draws
RandomWeights(num_neurons, num_inputs) ==
    [1..num_neurons -> [1..num_inputs -> {Div(r, num_inputs) : r \in RandVals}]]

RandomBiases(num_neurons) ==
    [1..num_neurons -> {Div(r, num_neurons) : r \in RandVals}]

InitRandom ==
    /\ NUM_IN \in Widths
    /\ NUM_OUT \in Widths
    /\ \E hs \in HiddenSpecs, a \in {Identity, Sigmoid, DebugPrint("out", Sigmoid)} :
          /\ random_args = [hidden_layers |-> hs, output_activation |-> a]
          /\ hidden_layers = hs
    /\ layers = <<>>
    /\ prev_num_neurons = NUM_IN
    /\ pc = "random"
    /\ input = <<>>
    /\ target = <<>>
    /\ learning_rate = Zero
    /\ intermediate_outputs = <<>>
    /\ layer_gradients = <<>>
    /\ total_error = Zero
    /\ layer_deltas = <<>>
    /\ i = 0
    /\ result = None
    /\ calls = 0
    /\ layers0 = <<>>
    /\ applied = <<>>
    /\ test_cases = {}
    /\ info = InfoIdentity
    /\ activation = Identity
    /\ stdout = <<>>

\* the layer pushed for one LayerProperties
HiddenLayer(weights, biases, layer) == Layer(weights, biases, layer.activation)

\* random, lines 85-104: one iteration of the loop over hidden_layers
RandomHidden ==
    /\ pc = "random"
    /\ hidden_layers # <<>>
    /\ LET layer == Head(hidden_layers)
       IN  /\ \E weights \in RandomWeights(layer.num_neurons, prev_num_neurons),
                 biases \in RandomBiases(layer.num_neurons) :
                 layers' = Append(layers, HiddenLayer(weights, biases, layer))
           /\ prev_num_neurons' = layer.num_neurons
    /\ hidden_layers' = Tail(hidden_layers)
    /\ UNCHANGED <<NUM_IN, NUM_OUT, pc, input, target, learning_rate,
                   intermediate_outputs, layer_gradients, total_error, layer_deltas, i,
                   result, calls, layers0, applied, test_cases, random_args, actVars>>

\* the output layer's rows had they been sized by NUM_IN
OutputInputsFirst(prev) == NUM_IN

\* the number of inputs of the output layer's rows
OutputInputs(prev) == prev

\* random, lines 106-125: the output layer, and the return
RandomOutput ==
    /\ pc = "random"
    /\ hidden_layers = <<>>
    /\ \E weights \in RandomWeights(NUM_OUT, OutputInputs(prev_num_neurons)),
          biases \in RandomBiases(NUM_OUT) :
          layers' = Append(layers, Layer(weights, biases, random_args.output_activation))
    /\ result' = [op |-> "random"]
    /\ pc' = "idle"
    /\ UNCHANGED <<NUM_IN, NUM_OUT, input, target, learning_rate, intermediate_outputs,
                   layer_gradients, total_error, layer_deltas, i, calls, layers0, applied,
                   test_cases, randVars, actVars>>

NextRandom == RandomHidden \/ RandomOutput

SpecRandom == InitRandom /\ [][NextRandom]_vars

----------------------------------------------------------------------------
(* SpecAct: an activation deserialized, cloned, serialized and called *)

MaxDepth == 2       \* deepest nesting of DebugPrint

Labels == {"a", "b"}

\* the descriptions of at most d nested DebugPrints
RECURSIVE InfosUpTo(_)
InfosUpTo(d) ==
    IF d = 0 THEN {InfoIdentity, InfoSigmoid}
    ELSE InfosUpTo(d - 1)
         \cup {InfoDebugPrint(o, a) : o \in Labels, a \in InfosUpTo(d - 1)}

\* the arguments the activations are called on
ActInputs == {F(-1, 0), Zero, F(1, 2), F(1, 1), F(3, 2), One, F(2, 0)}

Ops == {"forward", "backward", "derivative"}

InitAct ==
    /\ info \in InfosUpTo(MaxDepth)
    /\ activation = None
    /\ pc = "tag"
    /\ stdout = <<>>
    /\ result = None
    /\ NUM_IN = 0
    /\ NUM_OUT = 0
    /\ layers = <<>>
    /\ input = <<>>
    /\ target = <<>>
    /\ learning_rate = Zero
    /\ intermediate_outputs = <<>>
    /\ layer_gradients = <<>>
    /\ total_error = Zero
    /\ layer_deltas = <<>>
    /\ i = 0
    /\ calls = 0
    /\ layers0 = <<>>
    /\ applied = <<>>
    /\ test_cases = {}
    /\ random_args = None
    /\ hidden_layers = <<>>
    /\ prev_num_neurons = 0

\* deserialize_activation_function
Deserialize ==
    /\ pc = "tag"
    /\ activation' = get_function(info)
    /\ pc' = "live"
    /\ UNCHANGED <<netVars, randVars, info, stdout, result>>

\* a clone_to_box of the activation, which replaces it
CloneToBox ==
    /\ pc = "live"
    /\ activation' = clone_to_box(activation)
    /\ pc' = "cloned"
    /\ UNCHANGED <<netVars, randVars, info, stdout, result>>

\* serialize_activation_function
Serialize ==
    /\ pc \in {"live", "cloned"}
    /\ result = None
    /\ result' = [op |-> "get_serializable", value |-> get_serializable(activation)]
    /\ UNCHANGED <<netVars, randVars, info, activation, stdout, pc>>

\* a call of forward, backward or derivative
CallActivation ==
    /\ pc \in {"live", "cloned"}
    /\ result = None
    /\ \E op \in Ops, x \in ActInputs :
          LET r == Call(activation, op, x)
          IN  /\ result' = [op |-> op, x |-> x, value |-> r.result, trace |-> r.trace]
              /\ stdout' = stdout \o Prints(r.trace)
    /\ UNCHANGED <<netVars, randVars, info, activation, pc>>

NextAct == Deserialize \/ CloneToBox \/ Serialize \/ CallActivation

SpecAct == InitAct /\ [][NextAct]_vars

----------------------------------------------------------------------------
(* the properties *)

RECURSIVE SumSeq(_)
SumSeq(s) ==
    IF s = <<>> THEN Zero ELSE Add(SumSeq(SubSeq(s, 1, Len(s) - 1)), s[Len(s)])

\* a backpropagate call has returned and nothing was called since
Returned == pc = "idle" /\ result.op = "backpropagate"

\* a backpropagate call is running or has just returned
InCall == pc \in {"deltas", "apply", "return"} \/ Returned

\* C1: on a network of one Identity neuron with weight w and bias b, a call
\* backpropagate([x], [t], lr) leaves the weight w - lr*(x*w + b - t)*x and the
\* bias b - lr*(x*w + b - t)
C1_NeuronUpdate ==
    Returned =>
        LET w == layers0[1].weights[1][1]
            b == layers0[1].biases[1]
            x == input[1]
            t == target[1]
            err == Sub(Add(Mul(x, w), b), t)
        IN  /\ layers[1].weights[1][1] = Sub(w, Mul(Mul(learning_rate, err), x))
            /\ layers[1].biases[1] = Sub(b, Mul(learning_rate, err))

\* the literal case: w = 0.5, b = 0, x = 1, t = 0, lr = 0.5 gives 0.25 and -0.25
C1_Witness ==
    /\ Returned
    /\ layers0[1].weights[1][1] = F(1, 1)
    /\ layers0[1].biases[1] = Zero
    /\ input = <<One>>
    /\ target = <<Zero>>
    /\ learning_rate = F(1, 1)
    /\ layers[1].weights[1][1] = F(1, 2)
    /\ layers[1].biases[1] = F(-1, 2)

\* the gradient layer l hands to layer l - 1 at input k, through the weights the
\* call started with
UpstreamThroughStart(l, k) ==
    SumSeq([j \in 1..Len(layers0[l].weights) |->
        Mul(layers0[l].weights[j][k],
            Mul(layer_gradients[l][j],
                ActDerivative(layers0[l].activation, intermediate_outputs[l + 1][j])))])

\* C2: within a call no layer is written before the deltas of every layer are
\* computed; the layers are visited last to first; and the gradient accumulated
\* for layer l - 1 at input k is the sum over the neurons j of layer l of
\* W[j][k] * (gradient[j] * derivative(output[j])), W being layer l's weights at
\* the start of the call
C2_DeltasBeforeWrites ==
    /\ pc = "deltas" =>
          /\ layers = layers0
          /\ applied = <<>>
          /\ i = Len(layers) - Len(layer_deltas)
          /\ \A l \in 1..Len(layers) : (layer_gradients[l] = <<>>) <=> (l < i)
    /\ pc = "apply" => Len(layer_deltas) = Len(layers)
    /\ InCall =>
          \A l \in 2..Len(layers) :
             (pc = "deltas" => l > i) =>
                /\ Len(layer_gradients[l - 1]) = Len(layers0[l].weights[1])
                /\ \A k \in 1..Len(layer_gradients[l - 1]) :
                      layer_gradients[l - 1][k] = UpstreamThroughStart(l, k)

\* a three-layer call in its apply loop, layer 1 written and layer 2 not yet, and
\* a non-zero gradient handed down to layer 1
C2_Witness ==
    /\ pc = "apply"
    /\ Len(layers) = 3
    /\ applied = <<1>>
    /\ layers[1] # layers0[1]
    /\ layers[2] = layers0[2]
    /\ \E k \in 1..Len(layer_gradients[1]) : layer_gradients[1][k][1] # 0

\* the dimensions and the activations of a network
Shape(ls) ==
    [l \in 1..Len(ls) |->
        [weights |-> Len(ls[l].weights),
         biases |-> Len(ls[l].biases),
         rows |-> [j \in 1..Len(ls[l].weights) |-> Len(ls[l].weights[j])],
         activation |-> get_serializable(ls[l].activation)]]

\* C3: no step of backpropagate changes the number of layers, a layer's number of
\* weight rows or of biases (which are equal), a row's length or a layer's
\* activation; nor the widths of the network
C3_ShapePreserved ==
    [][/\ Shape(layers') = Shape(layers)
       /\ \A l \in 1..Len(layers') : Len(layers'[l].weights) = Len(layers'[l].biases)
       /\ NUM_IN' = NUM_IN
       /\ NUM_OUT' = NUM_OUT]_vars

\* two calls have returned on a network of three layers, and every layer's numbers
\* differ from those the second call started with
C3_Witness ==
    /\ Returned
    /\ calls = 2
    /\ Len(layers) = 3
    /\ \A l \in 1..3 : layers[l].weights # layers0[l].weights

\* the squared error of the output the network gave before the update
ErrorBefore ==
    SumSeq([n \in 1..NUM_OUT |->
        LET d == Sub(forward(layers0, input, NUM_OUT)[n], target[n])
        IN  Half(Mul(d, d))])

\* C4: total_error is the sum over the output neurons of (output - target)^2 / 2,
\* output being the forward output under the weights held before the update; the
\* gradient seeded for output neuron n is output[n] - target[n]; total_error is
\* not negative
C4_TotalError ==
    /\ InCall =>
          /\ total_error = ErrorBefore
          /\ total_error[1] >= 0
          /\ Len(intermediate_outputs) = Len(layers) + 1
          /\ pc # "deltas" =>
                layer_gradients[Len(layers)] =
                   [n \in 1..NUM_OUT |->
                       Sub(forward(layers0, input, NUM_OUT)[n], target[n])]
    /\ Returned => result.total_error = ErrorBefore

\* a call on two outputs has returned a positive error, the update having changed
\* the output
C4_Witness ==
    /\ Returned
    /\ NUM_OUT = 2
    /\ result.total_error[1] > 0
    /\ result.layer_gradients[Len(layers)][1] # result.layer_gradients[Len(layers)][2]
    /\ forward(layers, input, NUM_OUT) # forward(layers0, input, NUM_OUT)

\* C10: the delta subtracted from layer l's weight [j][k] is
\* lr * gradient_l[j] * derivative_l(output_l[j]) * prev_output_l[k], and from its
\* bias [j] lr * gradient_l[j] * derivative_l(output_l[j]): layer l's own delta,
\* whatever the shapes of the layers; each layer is written exactly once per call
C10_OwnDelta ==
    /\ (pc \in {"apply", "return"} \/ Returned) =>
          \A l \in 1..Len(layers) :
             IF \E n \in 1..Len(applied) : applied[n] = l
             THEN \A j \in 1..Len(layers[l].weights) :
                     LET g == Mul(layer_gradients[l][j],
                                  ActDerivative(layers0[l].activation,
                                                intermediate_outputs[l + 1][j]))
                     IN  /\ layers[l].biases[j] =
                               Sub(layers0[l].biases[j], Mul(learning_rate, g))
                         /\ \A k \in 1..Len(layers[l].weights[j]) :
                               layers[l].weights[j][k] =
                                  Sub(layers0[l].weights[j][k],
                                      Mul(learning_rate,
                                          Mul(g, intermediate_outputs[l][k])))
             ELSE layers[l] = layers0[l]
    /\ (pc = "return" \/ Returned) => applied = [l \in 1..Len(layers) |-> l]
    /\ pc = "apply" => applied = [l \in 1..(i - 1) |-> l]

\* a call has returned on three layers of three different shapes, and the deltas
\* of the first and of the last layer differ
C10_Witness ==
    /\ Returned
    /\ Len(layers) = 3
    /\ Len(layers[1].weights) # Len(layers[3].weights)
    /\ Len(layers[1].weights[1]) # Len(layers[2].weights[1])
    /\ layer_deltas[1].biases # layer_deltas[3].biases
    /\ \A l \in 1..3 : layers[l] # layers0[l]

\* layer applied to the vector v: activation(bias + sum of weight * v)
LayerApplied(layer, v) ==
    [n \in 1..LayerLen(layer) |->
        ActForward(layer.activation,
                   Add(layer.biases[n],
                       SumSeq([k \in 1..Len(v) |-> Mul(layer.weights[n][k], v[k])])))]

\* C5: forward_with_intermediate_outputs(input) returns layers.len() + 1 vectors;
\* the first is the input, and vector l + 1 is layer l applied to vector l, of
\* the neuron count of layer l in length
C5_IntermediateOutputs ==
    result.op = "forward_with_intermediate_outputs" =>
        /\ Len(result.output) = Len(layers) + 1
        /\ result.output[1] = input
        /\ \A l \in 1..Len(layers) :
              /\ Len(result.output[l + 1]) = LayerLen(layers[l])
              /\ result.output[l + 1] = LayerApplied(layers[l], result.output[l])

\* three layers evaluated on an input that is neither all zero nor all one, the
\* three outputs of three different lengths or values
C5_Witness ==
    /\ result.op = "forward_with_intermediate_outputs"
    /\ Len(layers) = 3
    /\ input = <<F(-1, 1), One>>
    /\ result.output[2] # result.output[3]
    /\ result.output[3] # result.output[4]
    /\ Len(result.output[2]) # Len(result.output[3])

\* C9: forward(input) is the last vector of forward_with_intermediate_outputs(input)
\* and has NUM_OUT elements
C9_ForwardAgrees ==
    result.op = "forward" =>
        /\ Len(result.output) = NUM_OUT
        /\ result.output = Last(forward_with_intermediate_outputs(layers, input))

\* forward on three layers, the last a Sigmoid layer of two neurons, the output not
\* that of the layer before
C9_Witness ==
    /\ result.op = "forward"
    /\ Len(layers) = 3
    /\ NUM_OUT = 2
    /\ layers[3].activation = Sigmoid
    /\ result.output[1] # result.output[2]
    /\ result.output # forward_with_intermediate_outputs(layers, input)[3]

C7_TagRoundTrip ==
    result.op = "get_serializable" => result.value = info

\* a DebugPrint of a DebugPrint with another label, cloned and serialized
C7_Witness ==
    /\ result.op = "get_serializable"
    /\ pc = "cloned"
    /\ info.tag = "DebugPrint"
    /\ info.activation.tag = "DebugPrint"
    /\ info.activation.activation.tag = "Sigmoid"
    /\ info.output # info.activation.output

\* the labels of the nested DebugPrints of a description, outermost first, and
\* the variant they wrap
RECURSIVE LabelsOf(_)
LabelsOf(d) ==
    IF d.tag = "DebugPrint" THEN <<d.output>> \o LabelsOf(d.activation) ELSE <<>>
RECURSIVE LeafOf(_)
LeafOf(d) == IF d.tag = "DebugPrint" THEN LeafOf(d.activation) ELSE d

Reverse(s) == [n \in 1..Len(s) |-> s[Len(s) + 1 - n]]

\* C8: a call of forward, backward or derivative on DebugPrints nested to depth n
\* enters the same operation once at each level, outermost first, with the same
\* argument; then prints one line per DebugPrint, innermost first, each with the
\* value the wrapped activation returned; and returns that value
C8_DebugPrintCall ==
    result.op \in Ops =>
        LET labels == LabelsOf(info)
            n == Len(labels)
            trace == result.trace
            value == LeafResult(get_function(LeafOf(info)), result.op, result.x)
        IN  /\ Len(trace) = 2 * n + 1
            /\ \A d \in 1..(n + 1) :
                  trace[d] = [ev |-> "call",
                              kind |-> IF d <= n THEN "DebugPrint" ELSE LeafOf(info).tag,
                              op |-> result.op, x |-> result.x]
            /\ \A d \in 1..n :
                  trace[n + 1 + d] =
                     [ev |-> "print", output |-> Reverse(labels)[d], op |-> result.op,
                      x |-> result.x, result |-> value]
            /\ result.value = value
            /\ stdout = [d \in 1..n |-> trace[n + 1 + d]]

\* backward of Sigmoid under two DebugPrints of different labels, at 3/4
C8_Witness ==
    /\ result.op = "backward"
    /\ result.x = F(3, 2)
    /\ info = InfoDebugPrint("a", InfoDebugPrint("b", InfoSigmoid))
    /\ result.value = One
    /\ Len(stdout) = 2
    /\ stdout[1].output = "b"
    /\ stdout[2].output = "a"

====
